---- MODULE Spec2Model ----
(***************************************************************************)
(* Model of src/index.js, a single-screen jumping game: the simulation     *)
(* variables, the input handlers, the animation-frame loop and the         *)
(* persisted high score.                                                   *)
(*                                                                         *)
(* Arithmetic is exact and integer.  The code divides millisecond          *)
(* timestamps by 1000; the model keeps dt in milliseconds and scales every *)
(* quantity that is multiplied by dt instead:                              *)
(*   dt                      milliseconds                                  *)
(*   score                   1/1000 point        (score += dt * 10)        *)
(*   speed, player.vy        1/1000 px per s     (speed += dt * 2)         *)
(*   x, y, w, h              1/1000000 px        (x -= speed * dt)         *)
(*   spawnTimer              1/1000000 s                                   *)
(* Times are measured from the timestamp of the most recent animation      *)
(* frame: the code only ever uses differences of times.                    *)
(***************************************************************************)
EXTENDS Integers, Sequences, FiniteSets, TLC

\* ---------------------------------------------------------------- bounds
MaxRunMs == 4100          \* simulated time a run may accumulate
MaxPending == 2           \* scheduled animation-frame callbacks
SpawnRunMs == 900         \* simulated time of a run of SpecSpawn
RandDen == 100            \* Math.random() is r / RandDen
RandomValues == {50}      \* the numerators r that Math.random() may return
FrameSteps == {40}        \* ms between two successive frame timestamps
NowOffsets == {20, 45}    \* performance.now() minus the last frame timestamp
StoredValues ==           \* what localStorage may hold at startup
    { [present |-> FALSE, chars |-> << >>],
      [present |-> TRUE,  chars |-> <<"2">>],
      [present |-> TRUE,  chars |-> <<"a", "b", "c">>] }

\* ------------------------------------------------------ program constants
MsPerSec == 1000
PX == MsPerSec * MsPerSec
baseW == 800
baseH == 400
baseSpeed == 240
gravity == 1600
groundY == (baseH - 60) * PX
jumpVy == (0 - 720) * MsPerSec
maxStep == 33
passBonus == 5
leftMargin == (0 - 40) * PX
playerX == 80 * PX
playerW == 40 * PX
playerH == 40 * PX

Min(a, b) == IF a < b THEN a ELSE b
Max(a, b) == IF a > b THEN a ELSE b

\* ------------------------------------------------- numbers that may be NaN
Num(n) == [nan |-> FALSE, val |-> n]
NaN == [nan |-> TRUE, val |-> 0]

Digits == <<"0", "1", "2", "3", "4", "5", "6", "7", "8", "9">>
IsDigit(c) == \E i \in 1..10 : Digits[i] = c
DigitVal(c) == (CHOOSE i \in 1..10 : Digits[i] = c) - 1
IsSpace(c) == c = " "

RECURSIVE SkipSpace(_)
SkipSpace(s) ==
    IF s # << >> /\ IsSpace(Head(s)) THEN SkipSpace(Tail(s)) ELSE s

RECURSIVE DigitPrefix(_, _, _)
\* value and length of the longest prefix of digits of s
DigitPrefix(s, acc, n) ==
    IF s # << >> /\ IsDigit(Head(s))
    THEN DigitPrefix(Tail(s), acc * 10 + DigitVal(Head(s)), n + 1)
    ELSE [val |-> acc, len |-> n]

\* parseInt(str, 10)
parseInt(str) ==
    LET t == SkipSpace(str)
        neg == t # << >> /\ Head(t) = "-"
        signed == t # << >> /\ (Head(t) = "-" \/ Head(t) = "+")
        body == IF signed THEN Tail(t) ELSE t
        d == DigitPrefix(body, 0, 0)
    IN  IF d.len = 0 THEN NaN
        ELSE Num(IF neg THEN 0 - d.val ELSE d.val)

RECURSIVE NatString(_)
NatString(n) ==
    IF n < 10 THEN <<Digits[n + 1]>>
    ELSE NatString(n \div 10) \o <<Digits[(n % 10) + 1]>>

\* String(n) for an integer n
String(n) == IF n < 0 THEN <<"-">> \o NatString(0 - n) ELSE NatString(n)

\* localStorage.getItem(highKey) || '0'
getItemOrZero(item) ==
    IF item.present /\ item.chars # << >> THEN item.chars ELSE <<"0">>

\* parseInt(localStorage.getItem(highKey) || '0', 10)
loadHighScore(item) == parseInt(getItemOrZero(item))

\* Math.floor(score)
floor(sc) == sc \div MsPerSec

\* score > highScore  (a comparison with NaN is false)
scoreBeats(sc, hs) == ~hs.nan /\ sc > hs.val * MsPerSec

\* ------------------------------------------------------------------ state
VARIABLES running, lastTime, spawnTimer, score, speed, player,
          obstacles, obstaclePool, highScore, storage,
          armed,       \* the first-interaction listeners are still registered
          rafQueue,    \* callbacks requested for the next animation frame
          runStartHigh,\* history: persisted high score when the run started
          ended        \* history: the run that the last step froze or discarded

vars == <<running, lastTime, spawnTimer, score, speed, player, obstacles,
          obstaclePool, highScore, storage, armed, rafQueue,
          runStartHigh, ended>>

\* the program's variables as one value, threaded through the functions
Prog == [running |-> running, lastTime |-> lastTime, spawnTimer |-> spawnTimer,
         score |-> score, speed |-> speed, player |-> player,
         obstacles |-> obstacles, obstaclePool |-> obstaclePool,
         highScore |-> highScore, storage |-> storage, raf |-> 0,
         writes |-> 0]

Randoms == [kind : RandomValues, w : RandomValues, h : RandomValues,
            gap : RandomValues]

\* rand(min, max) with Math.random() = r / RandDen; min, max in 1/1000000 s
rand(min, max, r) == (r * (max - min)) \div RandDen + min

UsedIds(s) == {s.obstacles[i].id : i \in 1..Len(s.obstacles)}
              \cup {s.obstaclePool[i] : i \in 1..Len(s.obstaclePool)}

\* obstaclePool.pop() || {}
acquire(s) ==
    IF s.obstaclePool # << >>
    THEN s.obstaclePool[Len(s.obstaclePool)]
    ELSE CHOOSE n \in 0..(Cardinality(UsedIds(s))) : n \notin UsedIds(s)

\* spawnObstacle that reads the top of the pool without removing it
spawnObstacleNoPop(s, rnd) ==
    LET id == acquire(s)
        w == IF rnd.kind * 10 < 4 * RandDen
             THEN 20 * PX + (rnd.w * 20 * (PX \div RandDen))
             ELSE 30 * PX + (rnd.w * 40 * (PX \div RandDen))
        h == 20 * PX + (rnd.h * 40 * (PX \div RandDen))
        ob == [id |-> id, w |-> w, h |-> h, x |-> (baseW + 20) * PX,
               y |-> groundY + (s.player.h - h), passed |-> FALSE,
               bonuses |-> 0]
    IN  [s EXCEPT !.obstacles = Append(@, ob)]

spawnObstacle(s, rnd) ==
    LET id == acquire(s)
        pool == IF s.obstaclePool # << >>
                THEN SubSeq(s.obstaclePool, 1, Len(s.obstaclePool) - 1)
                ELSE << >>
        w == IF rnd.kind * 10 < 4 * RandDen
             THEN 20 * PX + (rnd.w * 20 * (PX \div RandDen))
             ELSE 30 * PX + (rnd.w * 40 * (PX \div RandDen))
        h == 20 * PX + (rnd.h * 40 * (PX \div RandDen))
        ob == [id |-> id, w |-> w, h |-> h, x |-> (baseW + 20) * PX,
               y |-> groundY + (s.player.h - h), passed |-> FALSE,
               bonuses |-> 0]
    IN  [s EXCEPT !.obstaclePool = pool, !.obstacles = Append(@, ob)]

\* writes counts the calls of localStorage.setItem
gameOver(s) ==
    IF scoreBeats(s.score, s.highScore)
    THEN [s EXCEPT !.running = FALSE,
                   !.highScore = Num(floor(s.score)),
                   !.storage = [present |-> TRUE, chars |-> String(floor(s.score))],
                   !.writes = @ + 1]
    ELSE [s EXCEPT !.running = FALSE]

\* rectsOverlap with the first vertical comparison the wrong way round
rectsOverlapFlippedY(a, b) ==
    /\ a.x < b.x + b.w
    /\ a.x + a.w > b.x
    /\ a.y > b.y + b.h
    /\ a.y + a.h > b.y

\* rectsOverlap with non-strict comparisons
rectsOverlapTouching(a, b) ==
    /\ a.x <= b.x + b.w
    /\ a.x + a.w >= b.x
    /\ a.y <= b.y + b.h
    /\ a.y + a.h >= b.y

rectsOverlap(a, b) ==
    /\ a.x < b.x + b.w
    /\ a.x + a.w > b.x
    /\ a.y < b.y + b.h
    /\ a.y + a.h > b.y

\* playerPhysics that applies only half of the gravity to the velocity
playerPhysicsHalfGravity(p, dt) ==
    LET vy1 == p.vy + (gravity \div 2) * dt
        y1 == p.y + vy1 * dt
    IN  IF y1 >= groundY
        THEN [p EXCEPT !.y = groundY, !.vy = 0, !.onGround = TRUE]
        ELSE [p EXCEPT !.y = y1, !.vy = vy1]

\* playerPhysics whose ground contact forgets to set onGround
playerPhysicsNoLanding(p, dt) ==
    LET vy1 == p.vy + gravity * dt
        y1 == p.y + vy1 * dt
    IN  IF y1 >= groundY
        THEN [p EXCEPT !.y = groundY, !.vy = 0]
        ELSE [p EXCEPT !.y = y1, !.vy = vy1]

\* playerPhysics without the ground contact branch
playerPhysicsNoClamp(p, dt) ==
    LET vy1 == p.vy + gravity * dt
        y1 == p.y + vy1 * dt
    IN  [p EXCEPT !.y = y1, !.vy = vy1]

\* player.vy += gravity * dt; player.y += player.vy * dt; ground contact
playerPhysics(p, dt) ==
    LET vy1 == p.vy + gravity * dt
        y1 == p.y + vy1 * dt
    IN  IF y1 >= groundY
        THEN [p EXCEPT !.y = groundY, !.vy = 0, !.onGround = TRUE]
        ELSE [p EXCEPT !.y = y1, !.vy = vy1]

RemoveAt(seq, i) == SubSeq(seq, 1, i - 1) \o SubSeq(seq, i + 1, Len(seq))

\* obstacleStep that awards the bonus whenever the obstacle is behind the
\* player, without looking at ob.passed
obstacleStepRepeatBonus(s, i, dt) ==
    LET ob0 == s.obstacles[i]
        ob1 == [ob0 EXCEPT !.x = @ - s.speed * dt]
        pass == ob1.x + ob1.w < s.player.x
        ob == IF pass
              THEN [ob1 EXCEPT !.passed = TRUE, !.bonuses = @ + 1]
              ELSE ob1
        s1 == [s EXCEPT !.obstacles[i] = ob,
                        !.score = IF pass THEN @ + passBonus * MsPerSec ELSE @]
    IN  IF ob.x + ob.w < leftMargin
        THEN [s1 EXCEPT !.obstacles = RemoveAt(@, i),
                        !.obstaclePool = Append(@, ob.id)]
        ELSE IF rectsOverlap(s1.player, ob) THEN gameOver(s1) ELSE s1

\* obstacleStep that decides the recycling on the obstacle's position
\* before the move
obstacleStepLateRecycle(s, i, dt) ==
    LET ob0 == s.obstacles[i]
        ob1 == [ob0 EXCEPT !.x = @ - s.speed * dt]
        pass == ~ob1.passed /\ ob1.x + ob1.w < s.player.x
        ob == IF pass
              THEN [ob1 EXCEPT !.passed = TRUE, !.bonuses = @ + 1]
              ELSE ob1
        s1 == [s EXCEPT !.obstacles[i] = ob,
                        !.score = IF pass THEN @ + passBonus * MsPerSec ELSE @]
    IN  IF ob0.x + ob0.w < leftMargin
        THEN [s1 EXCEPT !.obstacles = RemoveAt(@, i),
                        !.obstaclePool = Append(@, ob.id)]
        ELSE IF rectsOverlap(s1.player, ob) THEN gameOver(s1) ELSE s1

\* obstacleStep that tests the collision against the obstacle's position
\* before the move
obstacleStepStaleCollision(s, i, dt) ==
    LET ob0 == s.obstacles[i]
        ob1 == [ob0 EXCEPT !.x = @ - s.speed * dt]
        pass == ~ob1.passed /\ ob1.x + ob1.w < s.player.x
        ob == IF pass
              THEN [ob1 EXCEPT !.passed = TRUE, !.bonuses = @ + 1]
              ELSE ob1
        s1 == [s EXCEPT !.obstacles[i] = ob,
                        !.score = IF pass THEN @ + passBonus * MsPerSec ELSE @]
    IN  IF ob.x + ob.w < leftMargin
        THEN [s1 EXCEPT !.obstacles = RemoveAt(@, i),
                        !.obstaclePool = Append(@, ob.id)]
        ELSE IF rectsOverlap(s1.player, ob0) THEN gameOver(s1) ELSE s1

\* the body of the for loop over the obstacles, for index i
obstacleStep(s, i, dt) ==
    LET ob0 == s.obstacles[i]
        ob1 == [ob0 EXCEPT !.x = @ - s.speed * dt]
        pass == ~ob1.passed /\ ob1.x + ob1.w < s.player.x
        ob == IF pass
              THEN [ob1 EXCEPT !.passed = TRUE, !.bonuses = @ + 1]
              ELSE ob1
        s1 == [s EXCEPT !.obstacles[i] = ob,
                        !.score = IF pass THEN @ + passBonus * MsPerSec ELSE @]
    IN  IF ob.x + ob.w < leftMargin
        THEN [s1 EXCEPT !.obstacles = RemoveAt(@, i),
                        !.obstaclePool = Append(@, ob.id)]
        ELSE IF rectsOverlap(s1.player, ob) THEN gameOver(s1) ELSE s1

RECURSIVE obstacleLoop(_, _, _)
\* for (let i = obstacles.length - 1; i >= 0; i--)
obstacleLoop(s, i, dt) ==
    IF i < 1 THEN s ELSE obstacleLoop(obstacleStep(s, i, dt), i - 1, dt)

\* the time step of a tick, in ms
timeStep(now, last) == Min(now - last, maxStep)

\* spawnInterval without the 0.5 s cap on the reduction
spawnIntervalUncapped(s, r) ==
    rand(9 * (PX \div 10), 16 * (PX \div 10), r) - s.speed

\* the new spawn countdown
spawnInterval(s, r) ==
    rand(9 * (PX \div 10), 16 * (PX \div 10), r) - Min(PX \div 2, s.speed)

\* loop without the early return of an idle game
loopNoIdleReturn(s, now, rnd) ==
    LET dt == timeStep(now, s.lastTime)
        s1 == [s EXCEPT !.lastTime = now,
                        !.score = @ + dt * 10,
                        !.speed = @ + dt * 2,
                        !.spawnTimer = @ - dt * MsPerSec]
        s2 == IF s1.spawnTimer <= 0
              THEN [spawnObstacle(s1, rnd) EXCEPT
                        !.spawnTimer = spawnInterval(s1, rnd.gap)]
              ELSE s1
        s3 == [s2 EXCEPT !.player = playerPhysics(@, dt)]
        s4 == obstacleLoop(s3, Len(s3.obstacles), dt)
    IN  [s4 EXCEPT !.raf = @ + 1]

\* one call of loop(now); raf counts the calls of requestAnimationFrame
loop(s, now, rnd) ==
    IF ~s.running THEN s
    ELSE
    LET dt == timeStep(now, s.lastTime)
        s1 == [s EXCEPT !.lastTime = now,
                        !.score = @ + dt * 10,
                        !.speed = @ + dt * 2,
                        !.spawnTimer = @ - dt * MsPerSec]
        s2 == IF s1.spawnTimer <= 0
              THEN [spawnObstacle(s1, rnd) EXCEPT
                        !.spawnTimer = spawnInterval(s1, rnd.gap)]
              ELSE s1
        s3 == [s2 EXCEPT !.player = playerPhysics(@, dt)]
        s4 == obstacleLoop(s3, Len(s3.obstacles), dt)
    IN  [s4 EXCEPT !.raf = @ + 1]

\* resetGame that forgets to restore the base speed
resetGameKeepSpeed(s, pnow, rnd) ==
    LET s1 == [s EXCEPT !.obstacles = << >>,
                        !.obstaclePool = << >>,
                        !.player = [@ EXCEPT !.y = groundY, !.vy = 0,
                                             !.onGround = TRUE],
                        !.score = 0,
                        !.spawnTimer = 0,
                        !.running = TRUE,
                        !.lastTime = pnow]
    IN  loop(s1, s1.lastTime, rnd)

resetGame(s, pnow, rnd) ==
    LET s1 == [s EXCEPT !.obstacles = << >>,
                        !.obstaclePool = << >>,
                        !.player = [@ EXCEPT !.y = groundY, !.vy = 0,
                                             !.onGround = TRUE],
                        !.score = 0,
                        !.spawnTimer = 0,
                        !.speed = baseSpeed * MsPerSec,
                        !.running = TRUE,
                        !.lastTime = pnow]
    IN  loop(s1, s1.lastTime, rnd)

\* doJump that does not look at player.onGround
doJumpAnywhere(s, pnow, rnd) ==
    IF ~s.running THEN resetGame(s, pnow, rnd)
    ELSE [s EXCEPT !.player = [@ EXCEPT !.vy = jumpVy, !.onGround = FALSE]]

doJump(s, pnow, rnd) ==
    IF ~s.running THEN resetGame(s, pnow, rnd)
    ELSE IF s.player.onGround
         THEN [s EXCEPT !.player = [@ EXCEPT !.vy = jumpVy, !.onGround = FALSE]]
         ELSE s

\* startOnFirstInteraction, when its listeners are still registered
startOnFirstInteraction(s, isArmed, pnow, rnd) ==
    IF isArmed THEN resetGame(s, pnow, rnd) ELSE s

\* --------------------------------------------------------------- actions
NoRun == [valid |-> FALSE, before |-> Num(0), final |-> 0, after |-> Num(0),
          writes |-> 0]
EndOf(before, final, after, writes) ==
    [valid |-> TRUE, before |-> before, final |-> final, after |-> after,
     writes |-> writes]

Commit(s) ==
    /\ running' = s.running
    /\ lastTime' = s.lastTime
    /\ spawnTimer' = s.spawnTimer
    /\ score' = s.score
    /\ speed' = s.speed
    /\ player' = s.player
    /\ obstacles' = s.obstacles
    /\ obstaclePool' = s.obstaclePool
    /\ highScore' = s.highScore
    /\ storage' = s.storage

Init ==
    /\ running = FALSE
    /\ lastTime = 0
    /\ spawnTimer = 0
    /\ score = 0
    /\ speed = baseSpeed * MsPerSec
    /\ player = [x |-> playerX, y |-> groundY, w |-> playerW, h |-> playerH,
                 vy |-> 0, onGround |-> TRUE]
    /\ obstacles = << >>
    /\ obstaclePool = << >>
    /\ storage \in StoredValues
    /\ highScore = loadHighScore(storage)
    /\ armed = TRUE
    /\ rafQueue = 0
    /\ runStartHigh = loadHighScore(storage)
    /\ ended = NoRun

\* Space / ArrowUp, or mousedown / touchstart on the canvas: the doJump
\* listener runs, then the first-interaction listener if still registered
JumpInput ==
    /\ \E pnow \in NowOffsets, r1 \in Randoms, r2 \in Randoms :
         LET s1 == doJump(Prog, pnow, r1)
             s2 == startOnFirstInteraction(s1, armed, pnow, r2)
         IN  /\ rafQueue + s2.raf <= MaxPending
             /\ Commit(s2)
             /\ rafQueue' = rafQueue + s2.raf
             /\ runStartHigh' = IF armed \/ ~running
                                THEN loadHighScore(storage) ELSE runStartHigh
             /\ ended' = IF armed
                         THEN EndOf(IF running THEN runStartHigh
                                    ELSE loadHighScore(storage),
                                    s1.score, loadHighScore(s2.storage), s2.writes)
                         ELSE NoRun
    /\ armed' = FALSE

\* any other key, or a pointer press outside the canvas, while the
\* first-interaction listeners are registered
OtherInput ==
    /\ armed
    /\ \E pnow \in NowOffsets, r \in Randoms :
         LET s1 == startOnFirstInteraction(Prog, armed, pnow, r)
         IN  /\ rafQueue + s1.raf <= MaxPending
             /\ Commit(s1)
             /\ rafQueue' = rafQueue + s1.raf
             /\ ended' = IF running
                         THEN EndOf(runStartHigh, score, loadHighScore(s1.storage),
                                    s1.writes)
                         ELSE NoRun
    /\ runStartHigh' = loadHighScore(storage)
    /\ armed' = FALSE

\* click on the Restart button
RestartClick ==
    /\ \E pnow \in NowOffsets, r \in Randoms :
         LET s1 == resetGame(Prog, pnow, r)
         IN  /\ rafQueue + s1.raf <= MaxPending
             /\ Commit(s1)
             /\ rafQueue' = rafQueue + s1.raf
             /\ ended' = IF running
                         THEN EndOf(runStartHigh, score, loadHighScore(s1.storage),
                                    s1.writes)
                         ELSE NoRun
    /\ runStartHigh' = loadHighScore(storage)
    /\ UNCHANGED armed

RECURSIVE runCallbacks(_, _, _, _)
\* the n callbacks requested for a frame run one after the other, each with
\* the frame's timestamp; what they request is queued for the next frame
runCallbacks(s, n, now, rnd) ==
    IF n = 0 THEN s ELSE runCallbacks(loop(s, now, rnd), n - 1, now, rnd)

\* a display frame: its timestamp is d ms after the previous frame's; R is
\* what Math.random() may draw, budget bounds the length of a run
Frame(R, budget) ==
    /\ rafQueue > 0
    /\ running => budget
    /\ \E d \in FrameSteps, rnd \in R :
         LET s1 == runCallbacks([Prog EXCEPT !.lastTime = @ - d],
                                rafQueue, 0, rnd)
         IN  /\ Commit(s1)
             /\ rafQueue' = s1.raf
             /\ ended' = IF running /\ ~s1.running
                         THEN EndOf(runStartHigh, s1.score,
                                    loadHighScore(s1.storage), s1.writes)
                         ELSE NoRun
    /\ UNCHANGED <<armed, runStartHigh>>

AnimationFrame ==
    Frame(Randoms, speed - baseSpeed * MsPerSec < 2 * MaxRunMs)

Next ==
    \/ JumpInput
    \/ OtherInput
    \/ RestartClick
    \/ AnimationFrame

Spec == Init /\ [][Next]_vars

\* ----------------------------------------------------------------- claims
Overlapping == {i \in 1..Len(obstacles) : rectsOverlap(player, obstacles[i])}
Grounded(p) == p.y = groundY /\ p.vy = 0 /\ p.onGround

\* a handler that ends in resetGame: a start or a restart
ResetStep ==
    \/ RestartClick
    \/ OtherInput
    \/ JumpInput /\ (~running \/ armed)

\* C1: at most one tick callback is scheduled at any moment.
C1_OneTickChain == rafQueue <= 1

\* C2: when a run is frozen or discarded, the persisted high score is at
\* least what it was when the run started, and equals the larger of that
\* and floor(final score).
C2_HighScoreIsMax ==
    (ended.valid /\ ~ended.before.nan) =>
        /\ ~ended.after.nan
        /\ ended.after.val >= ended.before.val
        /\ ended.after.val = Max(ended.before.val, floor(ended.final))

\* C3: between ticks of a running game no active obstacle overlaps the
\* player.
C3_NoOverlapWhileRunning == running => Overlapping = {}

\* C3 witness: a tick found an obstacle overlapping the player and froze
\* the run.
C3_Witness == ~running /\ ended.valid /\ Overlapping # {}

\* C4 as stated: a start or restart leaves an empty obstacle list and
\* spawnTimer = 0 besides the other reset values.
C4_FullReset ==
    [][ResetStep =>
          /\ score' = 0
          /\ speed' = baseSpeed * MsPerSec
          /\ obstacles' = << >>
          /\ Grounded(player')
          /\ spawnTimer' = 0
          /\ running']_vars

\* C4 amended: a start or restart leaves score = 0, speed = 240, the
\* player grounded and running = true; its synchronous first tick has
\* spawned one obstacle at x = baseW + 20 that is not passed, the pool is
\* empty and spawnTimer is the positive interval just drawn.
C4_ResetThenFirstTick ==
    [][ResetStep =>
          /\ score' = 0
          /\ speed' = baseSpeed * MsPerSec
          /\ Grounded(player')
          /\ running'
          /\ Len(obstacles') = 1
          /\ obstacles'[1].x = (baseW + 20) * PX
          /\ ~obstacles'[1].passed
          /\ obstaclePool' = << >>
          /\ spawnTimer' > 0]_vars

\* C4 witness: a restart discarded a run that had scored and moved the
\* player, and left the reset state.
C4_Witness ==
    /\ ended.valid /\ ended.final > 0
    /\ running /\ score = 0 /\ Len(obstacles) = 1 /\ Grounded(player)

\* C5 as stated: a jump request made while player.onGround is false
\* leaves player.vy unchanged.
C5_NoVelocityChangeInAir ==
    [][(JumpInput /\ ~player.onGround) => player'.vy = player.vy]_vars

\* C5 amended: a jump request made while the game is running and
\* player.onGround is false leaves player.vy unchanged.
C5_NoDoubleJumpWhileRunning ==
    [][(JumpInput /\ running /\ ~player.onGround) =>
          player'.vy = player.vy]_vars

\* C5 witness: the player is falling in a running game, where a jump
\* request is accepted and ignored.
C5_Witness == running /\ ~player.onGround /\ player.vy > 0 /\ ~armed

\* C6: an active obstacle has received the pass bonus at most once.
C6_BonusAtMostOnce ==
    \A i \in 1..Len(obstacles) :
        /\ obstacles[i].bonuses <= 1
        /\ obstacles[i].bonuses = 1 <=> obstacles[i].passed

\* C6 witness: an obstacle that got its bonus has been ticked again well
\* behind the player.
C6_Witness ==
    \E i \in 1..Len(obstacles) :
        /\ obstacles[i].bonuses = 1
        /\ obstacles[i].x + obstacles[i].w < playerX - 40 * PX

\* C7: player.y never exceeds groundY.
C7_NeverBelowGround == player.y <= groundY

\* C7 witness: the player has jumped over an obstacle and landed again.
C7_Witness ==
    /\ running /\ Grounded(player)
    /\ \E i \in 1..Len(obstacles) : obstacles[i].passed

IsInteger(chars) ==
    chars # << >> /\ \A i \in 1..Len(chars) : IsDigit(chars[i])
Fresh ==
    ~running /\ armed /\ rafQueue = 0 /\ obstacles = << >> /\ ~ended.valid

\* C8: at startup highScore is an integer: the stored one when an integer
\* is stored, 0 when nothing is stored or the stored text is no integer.
C8_LoadYieldsInteger ==
    Fresh =>
        /\ ~highScore.nan
        /\ highScore.val = IF storage.present /\ IsInteger(storage.chars)
                           THEN DigitPrefix(storage.chars, 0, 0).val
                           ELSE 0

\* C9: within a run score never decreases from one state to the next.
C9_ScoreNeverDecreases ==
    [][(AnimationFrame \/ (JumpInput /\ ~ResetStep)) => score' >= score]_vars

\* C10: a tick of an idle game changes no simulation state and schedules
\* no further tick.
C10_IdleTickChangesNothing ==
    [][(AnimationFrame /\ ~running) =>
          /\ UNCHANGED <<running, score, speed, spawnTimer, player,
                         obstacles, obstaclePool, highScore, storage>>
          /\ rafQueue' = 0]_vars

\* C10 witness: after a game-over the pending tick has run and nothing is
\* scheduled any more.
C10_Witness ==
    ~running /\ rafQueue = 0 /\ obstacles # << >> /\ ~ended.valid /\ score > 0

ActiveIds == [i \in 1..Len(obstacles) |-> obstacles[i].id]
NoRepeat(seq) ==
    \A i, j \in 1..Len(seq) : i # j => seq[i] # seq[j]

\* C11: no obstacle object is both active and pooled, and none appears
\* twice in the active list or in the pool.
C11_ActiveXorPooled ==
    NoRepeat(ActiveIds \o obstaclePool)

\* C11 witness: a recycled object has been taken from the pool again (the
\* newest active obstacle is the oldest object) while others are active.
C11_Witness ==
    /\ Len(obstacles) >= 2
    /\ obstacles[Len(obstacles)].id = 0
    /\ obstacles[1].id # 0

\* C15: no active obstacle lies fully beyond the left margin; such an
\* obstacle has been moved to the pool by the tick that moved it there.
C15_RecycledWhenOffScreen ==
    \A i \in 1..Len(obstacles) :
        obstacles[i].x + obstacles[i].w >= leftMargin

\* C15 witness: a running game has recycled an obstacle into the pool.
C15_Witness ==
    running /\ obstaclePool # << >> /\ obstacles # << >> /\ Overlapping = {}

\* C16: after every tick of a run player.onGround is true exactly when
\* player.y = groundY, and then player.vy = 0.
C16_OnGroundIffAtGroundY ==
    [][(AnimationFrame /\ running) =>
          /\ player'.onGround <=> player'.y = groundY
          /\ player'.onGround => player'.vy = 0]_vars

\* C16 witness: ticks have carried the player more than 100 px above the
\* ground.
C16_Witness ==
    running /\ ~player.onGround /\ player.y < groundY - 100 * PX

\* C18: the time steps of the ticks of a frame are between 0 and 33 ms
\* (speed grows by 2 * dt in every tick, and only there).
C18_TimeStepInRange ==
    [][(AnimationFrame /\ running) =>
          /\ speed' - speed >= 0
          /\ speed' - speed <= 2 * maxStep]_vars

\* C17: a game-over writes the high score to storage only when
\* floor(score) exceeds the persisted high score, and not otherwise.
C17_WriteOnlyOnRecord ==
    (ended.valid /\ ~running /\ ~ended.before.nan) =>
        (ended.writes > 0 <=> floor(ended.final) > ended.before.val)

\* ------------------------------------------- collision test on a grid
\* A running game with one obstacle placed on, next to and across the
\* player's edges; the first tick has a zero time step and so tests the
\* rectangles exactly where they were placed.
GridXs == {29, 30, 31, 80, 119, 120, 121}
GridRises == {0, 39, 40, 41}
GridObstacle(x) ==
    [id |-> 0, w |-> 50 * PX, h |-> 40 * PX, x |-> x * PX,
     y |-> groundY + (playerH - 40 * PX),
     passed |-> x * PX + 50 * PX < playerX,
     bonuses |-> IF x * PX + 50 * PX < playerX THEN 1 ELSE 0]

InitOverlap ==
    /\ running = TRUE
    /\ lastTime \in FrameSteps
    /\ spawnTimer = PX \div 2
    /\ score = 0
    /\ speed = baseSpeed * MsPerSec
    /\ \E rise \in GridRises :
         player = [x |-> playerX, y |-> groundY - rise * PX, w |-> playerW,
                   h |-> playerH, vy |-> 0, onGround |-> rise = 0]
    /\ \E x \in GridXs : obstacles = <<GridObstacle(x)>>
    /\ obstaclePool = << >>
    /\ storage = [present |-> FALSE, chars |-> << >>]
    /\ highScore = Num(0)
    /\ armed = FALSE
    /\ rafQueue = 1
    /\ runStartHigh = Num(0)
    /\ ended = NoRun

SpecOverlap == InitOverlap /\ [][AnimationFrame]_vars

\* the overlap condition as the specification words it
StrictOverlap(a, b) ==
    a.x < b.x + b.w /\ a.x + a.w > b.x /\ a.y < b.y + b.h /\ a.y + a.h > b.y
SharedEdge(a, b) ==
    \/ a.x + a.w = b.x \/ b.x + b.w = a.x
    \/ a.y + a.h = b.y \/ b.y + b.h = a.y

\* C12: a tick ends the run exactly when some active obstacle and the
\* player satisfy the four strict inequalities (rectsOverlap agrees with
\* them), so rectangles that only share an edge do not end the run.
C12_StrictInequalities ==
    [][(AnimationFrame /\ running) =>
          /\ running' <=> \A i \in 1..Len(obstacles') :
                              ~StrictOverlap(player', obstacles'[i])
          /\ \A i \in 1..Len(obstacles') :
                 rectsOverlap(player', obstacles'[i])
                     <=> StrictOverlap(player', obstacles'[i])]_vars

\* C12 witness: a tick has tested an obstacle that shares an edge with
\* the player and the game is still running.
C12_Witness ==
    /\ running /\ lastTime = 0
    /\ \E i \in 1..Len(obstacles) : SharedEdge(player, obstacles[i])

\* ------------------------------------------ spawn countdown at any speed
\* A running game late in a run: speed has grown to one of SpawnSpeeds
\* (px / s), one passed obstacle is about to leave the screen and a spawn
\* is due in the next tick; Math.random() draws its extremes.
SpawnSpeeds == {240, 499, 500, 501, 1500}
SpawnRandomValues == {0, 99}
SpawnRandoms ==
    {[kind |-> r, w |-> r, h |-> r, gap |-> r] : r \in SpawnRandomValues}

InitSpawn ==
    /\ running = TRUE
    /\ lastTime = 0
    /\ spawnTimer = PX \div 100
    /\ \E v \in SpawnSpeeds :
         /\ speed = v * MsPerSec
         /\ score = 5 * (v - baseSpeed) * MsPerSec
    /\ player = [x |-> playerX, y |-> groundY, w |-> playerW, h |-> playerH,
                 vy |-> 0, onGround |-> TRUE]
    /\ obstacles = <<[GridObstacle(0) EXCEPT !.x = leftMargin]>>
    /\ obstaclePool = << >>
    /\ storage = [present |-> FALSE, chars |-> << >>]
    /\ highScore = Num(0)
    /\ armed = FALSE
    /\ rafQueue = 1
    /\ runStartHigh = Num(0)
    /\ ended = NoRun

SpawnFrame ==
    Frame(SpawnRandoms,
          \E v \in SpawnSpeeds :
              /\ speed >= v * MsPerSec
              /\ speed - v * MsPerSec < 2 * SpawnRunMs)

SpecSpawn == InitSpawn /\ [][SpawnFrame]_vars

\* the obstacles of a state that the last tick spawned, when every tick
\* has the full time step: older ones have moved at least twice
JustSpawned ==
    {i \in 1..Len(obstacles) :
        obstacles[i].x >= (baseW + 20) * PX - speed * maxStep}

\* C14: a tick spawns at most one obstacle, and the countdown it then
\* sets is at least 0.4 s and below 1.6 s, at every speed.
C14_SpawnIntervalPositive ==
    [][SpawnFrame =>
          /\ Cardinality(JustSpawned') <= 1
          /\ JustSpawned' # {} =>
                /\ spawnTimer' >= 4 * (PX \div 10)
                /\ spawnTimer' < 16 * (PX \div 10)]_vars

\* C14 witness: at a speed of 500 px/s or more a spawn has set the
\* smallest countdown, 0.4 s.
C14_Witness ==
    /\ speed >= 500 * MsPerSec
    /\ JustSpawned # {}
    /\ spawnTimer = 4 * (PX \div 10)

\* ---------------------------------------------------------------- liveness
\* AnimationFrame is enabled exactly in the states of FrameReady, and every
\* step of it changes vars
FrameReady ==
    rafQueue > 0 /\ (running => speed - baseSpeed * MsPerSec < 2 * MaxRunMs)

\* The browser keeps delivering animation frames while callbacks are
\* requested: weak fairness of AnimationFrame, WF_vars(AnimationFrame),
\* written out with FrameReady for ENABLED <<AnimationFrame>>_vars.
FrameFairness == []<>~FrameReady \/ []<><<AnimationFrame>>_vars

FairSpec == Spec /\ FrameFairness

\* time of flight of a jump (2 * 720 / 1600 s) plus three ticks, in ms
LandingMs == (2 * 720 * MsPerSec) \div gravity + 3 * maxStep

\* a jump has just taken effect, early enough in the bounded run for the
\* ticks of its flight to happen
JumpTaken ==
    /\ running /\ ~player.onGround /\ player.vy = jumpVy
    /\ speed - baseSpeed * MsPerSec < 2 * (MaxRunMs - LandingMs)

\* C13: after a jump has taken effect the player is eventually on the
\* ground again, unless the run ends first.
C13_JumpEventuallyLands ==
    JumpTaken ~> ((player.onGround /\ player.y = groundY) \/ ~running)

\* C13 witness: the player is on the way down from the apex of a jump.
C13_Witness ==
    /\ running /\ ~player.onGround /\ player.vy > 0
    /\ player.y < groundY - 140 * PX

\* A game nobody plays: input only starts a run (from Idle), and the
\* browser keeps delivering frames.
NextUnattended ==
    \/ ~running /\ JumpInput
    \/ ~running /\ OtherInput
    \/ ~running /\ RestartClick
    \/ AnimationFrame

SpecUnattended == Init /\ [][NextUnattended]_vars /\ FrameFairness

\* C19: a run in which no jump or restart is requested eventually ends
\* in game-over.
C19_UnattendedRunEnds == running ~> ~running

\* C19 witness: the first obstacle of a run overlaps the grounded player,
\* it has not passed, and the run is over.
C19_Witness ==
    /\ ~running /\ ended.valid /\ Grounded(player)
    /\ obstacles # << >>
    /\ 1 \in Overlapping /\ ~obstacles[1].passed /\ obstacles[1].id = 0
====
